---- MODULE Spec2Model ----
(***************************************************************************)
(* Cross-filter dashboard of src/app.py (module-level filter state) and    *)
(* src/app_comment.py (one Dashboard instance per page load).              *)
(*                                                                         *)
(* The fact table df is built once at import.  Every page load runs        *)
(* index(), which creates the widgets of one client and renders them; the  *)
(* event handlers mutate the filter state and re-render all five outputs.  *)
(* Time labels are sequences of characters, because the code inspects      *)
(* their characters ('Q' in s, '-' in s, s[4], s[:7]).  Scores are held in *)
(* units of 1/Den so that non-integer scores stay integers.                *)
(***************************************************************************)
EXTENDS Integers, Sequences, FiniteSets, TLC

VARIABLES
    impl,         \* which file runs: "app" (app.py) or "app_comment"
    df,           \* the fact table built at import: a sequence of rows
    state,        \* filter-state dicts, keyed by their owner
    view_toggle,  \* per open client: value of its Quarter/Month toggle
    shown,        \* per open client: the outputs its widgets display
    last          \* the event handled by the latest step

vars == <<impl, df, state, view_toggle, shown, last>>

----------------------------------------------------------------------------
(* Bounds and universes                                                    *)

\* Number of rows of a workbook that are loaded as the fact table.
MaxRows == 3

\* A score s is held as the integer s * Den.
Den == 2

Clients == {"c1", "c2"}

All == "All"
AllT == <<"A", "l", "l">>

Q1 == <<"2", "0", "2", "3", " ", "Q", "1">>
Q2 == <<"2", "0", "2", "3", " ", "Q", "2">>
M01 == <<"2", "0", "2", "3", "-", "0", "1">>
M02 == <<"2", "0", "2", "3", "-", "0", "2">>
M04 == <<"2", "0", "2", "3", "-", "0", "4">>
M09 == <<"2", "0", "2", "3", "-", "0", "9">>

\* Labels in the order Python compares strings (' ' < '-' < digits).
TimeOrder == <<Q1, Q2, M01, M02, M04, M09>>
LevelOrder == <<"Grade 10", "Grade 9">>
SubjectOrder == <<"Art", "Math">>

Modes == {"Quarter", "Month"}

\* Labels a click can carry: the buckets of the charts, and stale ones.
GradeClicks == {"A", "D"}
LevelClicks == {"Grade 9", "Grade 10"}
SubjectClicks == {"Math", "Art"}
TimeClicks == {Q1, Q2, M01, M09}

Rank(order, x) == CHOOSE i \in DOMAIN order : order[i] = x

----------------------------------------------------------------------------
(* 1. Data loading                                                         *)

grade_order == <<"A", "B", "C", "D", "F">>

\* Mutant of get_grade: the thresholds are inclusive.
get_grade_inclusive(score) ==
    IF score >= 84 * Den THEN "A"
    ELSE IF score >= 74 * Den THEN "B"
    ELSE IF score >= 64 * Den THEN "C"
    ELSE IF score >= 54 * Den THEN "D"
    ELSE "F"

get_grade(score) ==
    IF score > 84 * Den THEN "A"
    ELSE IF score > 74 * Den THEN "B"
    ELSE IF score > 64 * Den THEN "C"
    ELSE IF score > 54 * Den THEN "D"
    ELSE "F"

PassedScore(score) == IF score >= 55 * Den THEN "Pass" ELSE "Fail"

Raw(student, level, subject, quarter, month, score, weight) ==
    [StudentID |-> student, GradeLevel |-> level, SubjectName |-> subject,
     YearQuarterConcat |-> quarter, YearMonthConcat |-> month,
     Score |-> score, Weight |-> weight]

\* The merged workbooks.  hasWeight says whether the sheet has a Weight
\* column; without one the row's weight below is not read.
\* BaseA: the three-row scenario (90, 60, 40) first, then a repeated exam.
BaseA ==
    [hasWeight |-> FALSE,
     rows |-> << Raw(1, "Grade 9", "Math", Q1, M01, 90 * Den, 0),
                 Raw(2, "Grade 10", "Math", Q1, M02, 60 * Den, 0),
                 Raw(1, "Grade 9", "Art", Q2, M04, 40 * Den, 0),
                 Raw(1, "Grade 9", "Math", Q1, M01, 90 * Den, 0) >>]

\* BaseB: scores on the 0..1 scale (1.0, 0.5, 0.0), all weights zero first.
BaseB ==
    [hasWeight |-> TRUE,
     rows |-> << Raw(1, "Grade 9", "Math", Q1, M01, Den, 0),
                 Raw(2, "Grade 9", "Art", Q1, M02, 1, 0),
                 Raw(2, "Grade 9", "Math", Q2, M04, 0, 3),
                 Raw(1, "Grade 10", "Art", Q2, M04, Den, 1) >>]

\* BaseC: half-point scores around the thresholds (54.5, 55, 84.5, 100), a
\* student joined to two levels, and a calendar in which month 2023-01
\* carries two quarter labels.
BaseC ==
    [hasWeight |-> TRUE,
     rows |-> << Raw(1, "Grade 9", "Math", Q2, M01, 109, 2),
                 Raw(1, "Grade 10", "Math", Q1, M01, 55 * Den, 1),
                 Raw(2, "Grade 9", "Art", Q1, M02, 169, 0),
                 Raw(2, "Grade 9", "Math", Q2, M04, 100 * Den, 1) >>]

Bases == {BaseA, BaseB, BaseC}

\* Lines 36-58: the derived columns of one row.
Derive(raw, hasWeight) ==
    LET w == IF hasWeight THEN raw.Weight ELSE 1
    IN  [StudentID |-> raw.StudentID, GradeLevel |-> raw.GradeLevel,
         SubjectName |-> raw.SubjectName,
         YearQuarterConcat |-> raw.YearQuarterConcat,
         YearMonthConcat |-> raw.YearMonthConcat,
         Score |-> raw.Score, Weight |-> w,
         WeightedScore |-> raw.Score * w,
         PassedScore |-> PassedScore(raw.Score),
         Assessment_Grade |-> get_grade(raw.Score)]

\* df.sort_values(['GradeLevel', 'Assessment_Grade']): a stable sort.
sort_values(rows) ==
    LET n == Len(rows)
        Before(i, j) ==
            LET li == Rank(LevelOrder, rows[i].GradeLevel)
                lj == Rank(LevelOrder, rows[j].GradeLevel)
                gi == Rank(grade_order, rows[i].Assessment_Grade)
                gj == Rank(grade_order, rows[j].Assessment_Grade)
            IN  \/ li < lj
                \/ li = lj /\ gi < gj
                \/ li = lj /\ gi = gj /\ i < j
        Pos(i) == 1 + Cardinality({j \in 1..n : Before(j, i)})
    IN  [k \in 1..n |-> rows[CHOOSE i \in 1..n : Pos(i) = k]]

\* The fact table of the first n rows of a workbook.
Load(base, n) ==
    sort_values([i \in 1..n |-> Derive(base.rows[i], base.hasWeight)])

Min(a, b) == IF a < b THEN a ELSE b

\* The empty table and, of every workbook, its first MaxRows rows.
FactTables ==
    UNION {{Load(b, 0), Load(b, Min(MaxRows, Len(b.rows)))} : b \in Bases}

----------------------------------------------------------------------------
(* 2. Filter state and get_data                                            *)

InitialState ==
    [grade |-> All, level |-> All, time |-> AllT, subject |-> All,
     view_mode |-> "Quarter"]

Contains(s, ch) == \E i \in DOMAIN s : s[i] = ch

\* Mutant of get_data: the time filter is applied even when ignore_time is
\* set.
get_data_time_always(st, ignore_grade, ignore_level, ignore_time, ignore_subject) ==
    {i \in DOMAIN df :
        /\ (~ignore_grade /\ st.grade # All)
              => df[i].Assessment_Grade = st.grade
        /\ (~ignore_level /\ st.level # All)
              => df[i].GradeLevel = st.level
        /\ (~ignore_subject /\ st.subject # All)
              => df[i].SubjectName = st.subject
        /\ (st.time # AllT)
              => IF Contains(st.time, "Q")
                 THEN df[i].YearQuarterConcat = st.time
                 ELSE df[i].YearMonthConcat = st.time}

\* Mutant of get_data: the level filter is applied when ignore_level is
\* set instead of when it is not.
get_data_level_inverted(st, ignore_grade, ignore_level, ignore_time, ignore_subject) ==
    {i \in DOMAIN df :
        /\ (~ignore_grade /\ st.grade # All)
              => df[i].Assessment_Grade = st.grade
        /\ (ignore_level /\ st.level # All)
              => df[i].GradeLevel = st.level
        /\ (~ignore_subject /\ st.subject # All)
              => df[i].SubjectName = st.subject
        /\ (~ignore_time /\ st.time # AllT)
              => IF Contains(st.time, "Q")
                 THEN df[i].YearQuarterConcat = st.time
                 ELSE df[i].YearMonthConcat = st.time}

\* Mutant of filter_time: the time filter is always compared with the
\* month label.
filter_time_by_month(d, st, ignore_time) ==
    IF ~ignore_time /\ st.time # AllT
    THEN {i \in d : df[i].YearMonthConcat = st.time}
    ELSE d

\* The four filtering steps of get_data, each on the rows d the steps
\* before it left.
filter_grade(d, st, ignore_grade) ==
    IF ~ignore_grade /\ st.grade # All
    THEN {i \in d : df[i].Assessment_Grade = st.grade}
    ELSE d

filter_level(d, st, ignore_level) ==
    IF ~ignore_level /\ st.level # All
    THEN {i \in d : df[i].GradeLevel = st.level}
    ELSE d

filter_subject(d, st, ignore_subject) ==
    IF ~ignore_subject /\ st.subject # All
    THEN {i \in d : df[i].SubjectName = st.subject}
    ELSE d

filter_time(d, st, ignore_time) ==
    IF ~ignore_time /\ st.time # AllT
    THEN IF Contains(st.time, "Q")
         THEN {i \in d : df[i].YearQuarterConcat = st.time}
         ELSE {i \in d : df[i].YearMonthConcat = st.time}
    ELSE d

\* The index labels of the rows that pass the filters of st: df.copy()
\* put through the grade, level, subject and time steps in this order.
get_data(st, ignore_grade, ignore_level, ignore_time, ignore_subject) ==
    filter_time(
        filter_subject(
            filter_level(
                filter_grade(DOMAIN df, st, ignore_grade),
                st, ignore_level),
            st, ignore_subject),
        st, ignore_time)

----------------------------------------------------------------------------
(* 3. Aggregations and rendering                                           *)
(*                                                                         *)
(* A renderer's local variables are the parameters of its local operators, *)
(* so that each is computed once from the ones before it.                  *)

RECURSIVE SumOver(_, _)
\* sum of column col over the rows with index labels in d
SumOver(d, col) ==
    IF d = {} THEN 0
    ELSE LET i == CHOOSE x \in d : TRUE
         IN  df[i][col] + SumOver(d \ {i}, col)

nunique(d, col) == Cardinality({df[i][col] : i \in d})

\* Decimal formatting f"{x:.kf}" of x = num / den >= 0, as the integer
\* x * 10^k rounded to nearest, an exact tie going to the even digit.
Round(num, den) ==
    LET q == num \div den
        r == num % den
    IN  IF 2 * r < den THEN q
        ELSE IF 2 * r > den THEN q + 1
        ELSE IF q % 2 = 0 THEN q ELSE q + 1

\* A mean kept exact: the pair <<sum of Score, Den * number of rows>>.
Mean(d) == <<SumOver(d, "Score"), Den * Cardinality(d)>>

\* x > y for two such pairs
Greater(x, y) == x[1] * y[2] > y[1] * x[2]

\* The elements of set S as a sequence ordered by the strict total order
\* before, a set of pairs.
OrderBy(S, before) ==
    LET Pos(x) == 1 + Cardinality({y \in S : <<y, x>> \in before})
    IN  [k \in 1..Cardinality(S) |-> CHOOSE x \in S : Pos(x) = k]

\* go.Figure(): the blank figure
Blank == [blank |-> TRUE]

\* Mutant of render_kpis: the KPIs are computed over the view that ignores
\* the time filter.
render_kpis_ignoring_time(st) ==
    LET weighted(ws, w_sum) ==
            IF w_sum > 0
            THEN IF ws <= Den * w_sum
                 THEN Round(100 * 100 * ws, Den * w_sum)
                 ELSE Round(100 * ws, Den * w_sum)
            ELSE 0
        target ==
            IF \E i \in DOMAIN df : df[i].Score > 1 * Den
            THEN 100 * Den ELSE 1 * Den
        labels(d_kpi, n) ==
            IF d_kpi = {}
            THEN [kpi_avg |-> 0, kpi_weighted |-> 0, kpi_pass |-> 0,
                  kpi_perfect |-> 0]
            ELSE [kpi_avg |-> Round(100 * SumOver(d_kpi, "Score"), Den * n),
                  kpi_weighted |-> weighted(SumOver(d_kpi, "WeightedScore"),
                                            SumOver(d_kpi, "Weight")),
                  kpi_pass |->
                      Round(100 * 100 * Cardinality(
                                {i \in d_kpi : df[i].PassedScore = "Pass"}), n),
                  kpi_perfect |->
                      Round(10 * 100 * Cardinality(
                                {i \in d_kpi : df[i].Score = target}), n)]
        count(d_kpi) == labels(d_kpi, Cardinality(d_kpi))
    IN  count(get_data(st, FALSE, FALSE, TRUE, FALSE))

\* Mutant of render_kpis: the perfect-score target is taken from the
\* maximum score of the filtered view.
render_kpis_view_target(st) ==
    LET weighted(ws, w_sum) ==
            IF w_sum > 0
            THEN IF ws <= Den * w_sum
                 THEN Round(100 * 100 * ws, Den * w_sum)
                 ELSE Round(100 * ws, Den * w_sum)
            ELSE 0
        target(d_kpi) ==
            IF \E i \in d_kpi : df[i].Score > 1 * Den
            THEN 100 * Den ELSE 1 * Den
        labels(d_kpi, n) ==
            IF d_kpi = {}
            THEN [kpi_avg |-> 0, kpi_weighted |-> 0, kpi_pass |-> 0,
                  kpi_perfect |-> 0]
            ELSE [kpi_avg |-> Round(100 * SumOver(d_kpi, "Score"), Den * n),
                  kpi_weighted |-> weighted(SumOver(d_kpi, "WeightedScore"),
                                            SumOver(d_kpi, "Weight")),
                  kpi_pass |->
                      Round(100 * 100 * Cardinality(
                                {i \in d_kpi : df[i].PassedScore = "Pass"}), n),
                  kpi_perfect |->
                      Round(10 * 100 * Cardinality(
                                {i \in d_kpi : df[i].Score = target(d_kpi)}), n)]
        count(d_kpi) == labels(d_kpi, Cardinality(d_kpi))
    IN  count(get_data(st, FALSE, FALSE, FALSE, FALSE))

\* Mutant of render_kpis: a weighted ratio of exactly 1 is shown as it is,
\* only ratios below 1 are multiplied by 100.
render_kpis_below_one(st) ==
    LET weighted(ws, w_sum) ==
            IF w_sum > 0
            THEN IF ws < Den * w_sum
                 THEN Round(100 * 100 * ws, Den * w_sum)
                 ELSE Round(100 * ws, Den * w_sum)
            ELSE 0
        target ==
            IF \E i \in DOMAIN df : df[i].Score > 1 * Den
            THEN 100 * Den ELSE 1 * Den
        labels(d_kpi, n) ==
            IF d_kpi = {}
            THEN [kpi_avg |-> 0, kpi_weighted |-> 0, kpi_pass |-> 0,
                  kpi_perfect |-> 0]
            ELSE [kpi_avg |-> Round(100 * SumOver(d_kpi, "Score"), Den * n),
                  kpi_weighted |-> weighted(SumOver(d_kpi, "WeightedScore"),
                                            SumOver(d_kpi, "Weight")),
                  kpi_pass |->
                      Round(100 * 100 * Cardinality(
                                {i \in d_kpi : df[i].PassedScore = "Pass"}), n),
                  kpi_perfect |->
                      Round(10 * 100 * Cardinality(
                                {i \in d_kpi : df[i].Score = target}), n)]
        count(d_kpi) == labels(d_kpi, Cardinality(d_kpi))
    IN  count(get_data(st, FALSE, FALSE, FALSE, FALSE))

\* The four KPI labels: avg, weighted and pass in hundredths ("63.33" is
\* 6333), perfect in tenths ("0.0%" is 0).
render_kpis(st) ==
    LET \* val_w = ws / (Den * w_sum), shown * 100 when val_w <= 1
        weighted(ws, w_sum) ==
            IF w_sum > 0
            THEN IF ws <= Den * w_sum
                 THEN Round(100 * 100 * ws, Den * w_sum)
                 ELSE Round(100 * ws, Den * w_sum)
            ELSE 0
        \* df["Score"].max() > 1.0; the max of no rows is NaN, not > 1.0
        target ==
            IF \E i \in DOMAIN df : df[i].Score > 1 * Den
            THEN 100 * Den ELSE 1 * Den
        labels(d_kpi, n) ==
            IF d_kpi = {}
            THEN [kpi_avg |-> 0, kpi_weighted |-> 0, kpi_pass |-> 0,
                  kpi_perfect |-> 0]
            ELSE [kpi_avg |-> Round(100 * SumOver(d_kpi, "Score"), Den * n),
                  kpi_weighted |-> weighted(SumOver(d_kpi, "WeightedScore"),
                                            SumOver(d_kpi, "Weight")),
                  kpi_pass |->
                      Round(100 * 100 * Cardinality(
                                {i \in d_kpi : df[i].PassedScore = "Pass"}), n),
                  kpi_perfect |->
                      Round(10 * 100 * Cardinality(
                                {i \in d_kpi : df[i].Score = target}), n)]
        count(d_kpi) == labels(d_kpi, Cardinality(d_kpi))
    IN  count(get_data(st, FALSE, FALSE, FALSE, FALSE))

\* Mutant of render_grade_chart: the slices are counted over the fully
\* filtered view.
render_grade_chart_filtered(st) ==
    LET grades == {grade_order[i] : i \in DOMAIN grade_order}
        figure(d, d_total) ==
            IF d = {} THEN Blank
            ELSE [blank |-> FALSE,
                  values |-> [g \in grades |->
                     Cardinality({i \in d : df[i].Assessment_Grade = g})],
                  pull |-> IF st.grade # All
                           THEN {g \in grades : g = st.grade} ELSE {},
                  annotation |-> Cardinality(d_total)]
    IN  figure(get_data(st, FALSE, FALSE, FALSE, FALSE),
               get_data(st, FALSE, FALSE, FALSE, FALSE))

\* Mutant of render_grade_chart: the annotation counts the rows of the
\* chart's own view.
render_grade_chart_own_total(st) ==
    LET grades == {grade_order[i] : i \in DOMAIN grade_order}
        figure(d, d_total) ==
            IF d = {} THEN Blank
            ELSE [blank |-> FALSE,
                  values |-> [g \in grades |->
                     Cardinality({i \in d : df[i].Assessment_Grade = g})],
                  pull |-> IF st.grade # All
                           THEN {g \in grades : g = st.grade} ELSE {},
                  annotation |-> Cardinality(d)]
    IN  figure(get_data(st, TRUE, FALSE, FALSE, FALSE),
               get_data(st, FALSE, FALSE, FALSE, FALSE))

\* Grade pie: one slice per category of grade_order (observed=False), the
\* number of rows with a Score; pull marks the selected slice; the centre
\* shows the row count of the fully filtered view.
render_grade_chart(st) ==
    LET grades == {grade_order[i] : i \in DOMAIN grade_order}
        figure(d, d_total) ==
            IF d = {} THEN Blank
            ELSE [blank |-> FALSE,
                  values |-> [g \in grades |->
                     Cardinality({i \in d : df[i].Assessment_Grade = g})],
                  pull |-> IF st.grade # All
                           THEN {g \in grades : g = st.grade} ELSE {},
                  annotation |-> Cardinality(d_total)]
    IN  figure(get_data(st, TRUE, FALSE, FALSE, FALSE),
               get_data(st, FALSE, FALSE, FALSE, FALSE))

\* Mutant of render_level_chart: the students of a level are counted over
\* the whole table.
render_level_chart_unfiltered(st) ==
    LET figure(d, d_total, levels) ==
            IF d = {} THEN Blank
            ELSE [blank |-> FALSE,
                  values |-> [l \in levels |->
                     nunique({i \in DOMAIN df : df[i].GradeLevel = l},
                             "StudentID")],
                  pull |-> IF st.level # All
                           THEN {l \in levels : l = st.level} ELSE {},
                  annotation |-> nunique(d_total, "StudentID")]
        group(d, d_total) ==
            figure(d, d_total, {df[i].GradeLevel : i \in d})
    IN  group(get_data(st, FALSE, TRUE, FALSE, FALSE),
              get_data(st, FALSE, FALSE, FALSE, FALSE))

\* Level pie: one slice per level present, the number of distinct students.
render_level_chart(st) ==
    LET figure(d, d_total, levels) ==
            IF d = {} THEN Blank
            ELSE [blank |-> FALSE,
                  values |-> [l \in levels |->
                     nunique({i \in d : df[i].GradeLevel = l}, "StudentID")],
                  pull |-> IF st.level # All
                           THEN {l \in levels : l = st.level} ELSE {},
                  annotation |-> nunique(d_total, "StudentID")]
        group(d, d_total) ==
            figure(d, d_total, {df[i].GradeLevel : i \in d})
    IN  group(get_data(st, FALSE, TRUE, FALSE, FALSE),
              get_data(st, FALSE, FALSE, FALSE, FALSE))

\* Mutant of time_rows: the time chart starts from the fully filtered view.
time_rows_filtered(st) ==
    LET in_quarter(d, parent_quarter) ==
            {i \in d : df[i].YearQuarterConcat = parent_quarter}
        of_month(d, matches) ==
            IF matches # {}
            THEN in_quarter(d, df[CHOOSE i \in matches :
                                    \A j \in matches : i <= j].YearQuarterConcat)
            ELSE d
        drill(d) ==
            IF st.view_mode = "Month"
            THEN IF st.time # AllT /\ Contains(st.time, "Q")
                 THEN in_quarter(d, st.time)
                 ELSE IF st.time # AllT /\ Contains(st.time, "-")
                 THEN of_month(d, {i \in DOMAIN df :
                                     df[i].YearMonthConcat = st.time})
                 ELSE d
            ELSE d
    IN  drill(get_data(st, FALSE, FALSE, FALSE, FALSE))

\* Mutant of time_rows: a month label in the time filter does not cut the
\* chart to the month's quarter.
time_rows_month_unrestricted(st) ==
    LET in_quarter(d, parent_quarter) ==
            {i \in d : df[i].YearQuarterConcat = parent_quarter}
        drill(d) ==
            IF st.view_mode = "Month"
            THEN IF st.time # AllT /\ Contains(st.time, "Q")
                 THEN in_quarter(d, st.time)
                 ELSE d
            ELSE d
    IN  drill(get_data(st, FALSE, FALSE, TRUE, FALSE))

\* Mutant of time_rows: a month label no row carries leaves the chart
\* without rows.
time_rows_fail_closed(st) ==
    LET in_quarter(d, parent_quarter) ==
            {i \in d : df[i].YearQuarterConcat = parent_quarter}
        of_month(d, matches) ==
            IF matches # {}
            THEN in_quarter(d, df[CHOOSE i \in matches :
                                    \A j \in matches : i <= j].YearQuarterConcat)
            ELSE {}
        drill(d) ==
            IF st.view_mode = "Month"
            THEN IF st.time # AllT /\ Contains(st.time, "Q")
                 THEN in_quarter(d, st.time)
                 ELSE IF st.time # AllT /\ Contains(st.time, "-")
                 THEN of_month(d, {i \in DOMAIN df :
                                     df[i].YearMonthConcat = st.time})
                 ELSE d
            ELSE d
    IN  drill(get_data(st, FALSE, FALSE, TRUE, FALSE))

\* The rows the time chart draws: the view that ignores the time filter,
\* cut to one quarter in Month mode.
\* Mutant of time_rows: with a month selected, the quarter column is
\* compared with the month label itself, without the lookup of the
\* month's quarter.
time_rows_no_lookup(st) ==
    LET in_quarter(d, parent_quarter) ==
            {i \in d : df[i].YearQuarterConcat = parent_quarter}
        of_month(d, matches) ==
            IF matches # {} THEN in_quarter(d, st.time) ELSE d
        drill(d) ==
            IF st.view_mode = "Month"
            THEN IF st.time # AllT /\ Contains(st.time, "Q")
                 THEN in_quarter(d, st.time)
                 ELSE IF st.time # AllT /\ Contains(st.time, "-")
                 THEN of_month(d, {i \in DOMAIN df :
                                     df[i].YearMonthConcat = st.time})
                 ELSE d
            ELSE d
    IN  drill(get_data(st, FALSE, FALSE, TRUE, FALSE))

time_rows(st) ==
    LET in_quarter(d, parent_quarter) ==
            {i \in d : df[i].YearQuarterConcat = parent_quarter}
        of_month(d, matches) ==
            IF matches # {}
            THEN in_quarter(d, df[CHOOSE i \in matches :
                                    \A j \in matches : i <= j].YearQuarterConcat)
            ELSE d
        drill(d) ==
            IF st.view_mode = "Month"
            THEN IF st.time # AllT /\ Contains(st.time, "Q")
                 THEN in_quarter(d, st.time)
                 ELSE IF st.time # AllT /\ Contains(st.time, "-")
                 THEN of_month(d, {i \in DOMAIN df :
                                     df[i].YearMonthConcat = st.time})
                 ELSE d
            ELSE d
    IN  drill(get_data(st, FALSE, FALSE, TRUE, FALSE))

\* Mutant of time_title: the title follows the time filter in both modes.
time_title_any_mode(st) ==
    IF Contains(st.time, "Q")
    THEN <<"Monthly Breakdown for ", st.time>>
    ELSE <<"Performance Over Time">>

time_title(st) ==
    IF st.view_mode = "Month" /\ Contains(st.time, "Q")
    THEN <<"Monthly Breakdown for ", st.time>>
    ELSE <<"Performance Over Time">>

\* The reference line: mean score of the fully filtered view, or 0.
glob_avg(st) ==
    LET line(d_kpi) == IF d_kpi # {} THEN Mean(d_kpi) ELSE <<0, 1>>
    IN  line(get_data(st, FALSE, FALSE, FALSE, FALSE))

\* Mutant of render_time_chart: the bars are dimmed against the time filter
\* also while it holds the quarter drilled into.
render_time_chart_dimmed(st) ==
    LET mode == st.view_mode
        col_group ==
            IF mode = "Quarter" THEN "YearQuarterConcat"
            ELSE "YearMonthConcat"
        opacity(x) ==
            IF st.time # AllT
            THEN IF x = st.time THEN 10 ELSE 3
            ELSE 10
        figure(d, xs) ==
            IF d = {} THEN Blank
            ELSE [blank |-> FALSE,
                  bars |-> [k \in DOMAIN xs |->
                     [x |-> xs[k],
                      y |-> Mean({i \in d : df[i][col_group] = xs[k]}),
                      opacity |-> opacity(xs[k])]],
                  hline |-> glob_avg(st)]
        sorted(keys) ==
            OrderBy(keys, {p \in keys \X keys :
                             Rank(TimeOrder, p[1]) < Rank(TimeOrder, p[2])})
        group(d) == figure(d, sorted({df[i][col_group] : i \in d}))
    IN  group(time_rows(st))

\* Time bars: one bar per quarter (Quarter mode) or month label, sorted by
\* label, with its mean score and its opacity in tenths.
render_time_chart(st) ==
    LET mode == st.view_mode
        col_group ==
            IF mode = "Quarter" THEN "YearQuarterConcat"
            ELSE "YearMonthConcat"
        opacity(x) ==
            IF st.time # AllT
               /\ ~(mode = "Month" /\ Contains(st.time, "Q"))
            THEN IF x = st.time THEN 10 ELSE 3
            ELSE 10
        figure(d, xs) ==
            IF d = {} THEN Blank
            ELSE [blank |-> FALSE,
                  bars |-> [k \in DOMAIN xs |->
                     [x |-> xs[k],
                      y |-> Mean({i \in d : df[i][col_group] = xs[k]}),
                      opacity |-> opacity(xs[k])]],
                  hline |-> glob_avg(st)]
        sorted(keys) ==
            OrderBy(keys, {p \in keys \X keys :
                             Rank(TimeOrder, p[1]) < Rank(TimeOrder, p[2])})
        group(d) == figure(d, sorted({df[i][col_group] : i \in d}))
    IN  group(time_rows(st))

\* Mutant of render_subject_chart: the bars stay in the order of the
\* groupby keys.
render_subject_chart_unsorted(st) ==
    LET figure(d, mean, xs) ==
            IF d = {} THEN Blank
            ELSE [blank |-> FALSE,
                  bars |-> [k \in DOMAIN xs |->
                     [x |-> xs[k], y |-> mean[xs[k]],
                      opacity |-> IF st.subject # All /\ xs[k] # st.subject
                                  THEN 3 ELSE 10]],
                  hline |-> glob_avg(st)]
        sorted(keys) ==
            OrderBy(keys, {p \in keys \X keys :
                Rank(SubjectOrder, p[1]) < Rank(SubjectOrder, p[2])})
        sort(d, keys, mean) == figure(d, mean, sorted(keys))
        average(d, keys) ==
            sort(d, keys,
                 [x \in keys |-> Mean({i \in d : df[i].SubjectName = x})])
        group(d) == average(d, {df[i].SubjectName : i \in d})
    IN  group(get_data(st, FALSE, FALSE, FALSE, TRUE))

\* Subject bars: one bar per subject present, highest mean first (equal
\* means keep the group order); opacity is the default 1.0 unless a
\* subject is selected.
render_subject_chart(st) ==
    LET figure(d, mean, xs) ==
            IF d = {} THEN Blank
            ELSE [blank |-> FALSE,
                  bars |-> [k \in DOMAIN xs |->
                     [x |-> xs[k], y |-> mean[xs[k]],
                      opacity |-> IF st.subject # All /\ xs[k] # st.subject
                                  THEN 3 ELSE 10]],
                  hline |-> glob_avg(st)]
        sorted(keys, mean) ==
            OrderBy(keys, {p \in keys \X keys :
                \/ Greater(mean[p[1]], mean[p[2]])
                \/ /\ ~Greater(mean[p[2]], mean[p[1]])
                   /\ Rank(SubjectOrder, p[1]) < Rank(SubjectOrder, p[2])})
        sort(d, keys, mean) == figure(d, mean, sorted(keys, mean))
        average(d, keys) ==
            sort(d, keys,
                 [x \in keys |-> Mean({i \in d : df[i].SubjectName = x})])
        group(d) == average(d, {df[i].SubjectName : i \in d})
    IN  group(get_data(st, FALSE, FALSE, FALSE, TRUE))

\* One full refresh: the status label and the five outputs, all computed
\* from the filter state st.
update_dashboard(st) ==
    [status_label |-> <<st.grade, st.level, st.time, st.subject>>,
     kpis |-> render_kpis(st),
     plot_grade |-> render_grade_chart(st),
     plot_level |-> render_level_chart(st),
     time_title_label |-> time_title(st),
     plot_time |-> render_time_chart(st),
     plot_subject |-> render_subject_chart(st)]

----------------------------------------------------------------------------
(* 4. Event handlers                                                       *)
(*                                                                         *)
(* A handler runs on the record w of what its client can touch: the filter *)
(* state st it reads and writes, its toggle widget and its outputs.  It    *)
(* returns w and how it ended: "done", "ignored" (guard false) or "raised" *)
(* (an exception left the handler before it changed anything).             *)

\* e.args of a plotly_click: a dict, here a function; None and {} are <<>>.
Click(key, v) == [args |-> ("points" :> << (key :> v) >>)]
NoArgs == [args |-> <<>>]
NoPoints == [args |-> ("event" :> "plotly_click")]
EmptyPoints == [args |-> ("points" :> <<>>)]

Done(w) == [w |-> w, outcome |-> "done"]
Ignored(w) == [w |-> w, outcome |-> "ignored"]
Raised(w) == [w |-> w, outcome |-> "raised"]

\* e.args and 'points' in e.args
Guard(e) == DOMAIN e.args # {} /\ "points" \in DOMAIN e.args

\* e.args['points'][0][key] can be evaluated
HasKey(e, key) ==
    /\ Len(e.args["points"]) > 0
    /\ key \in DOMAIN e.args["points"][1]

\* update_dashboard() redraws every output from the state as it is now; v
\* names the value of w, so that the state is computed once.
Refresh(w) ==
    CHOOSE r \in {[v EXCEPT !.shown = update_dashboard(v.st)] : v \in {w}} :
        TRUE

\* Mutant of Toggle: a click always selects, it never deselects.
ToggleNeverOff(current, clicked, all) == clicked

\* 'All' if current == clicked else clicked
Toggle(current, clicked, all) == IF current = clicked THEN all ELSE clicked

\* Mutant of on_value_change: the outputs are refreshed before view_mode
\* is assigned, and not after.
on_value_change_stale(w, value) ==
    LET w1 == Refresh(w)
    IN  [w1 EXCEPT !.st.view_mode = value]

\* Mutant of on_value_change: switching the granularity also clears the
\* time filter.
on_value_change_clears_time(w, value) ==
    IF impl = "app"
    THEN LET w1 == Refresh(w)
             w2 == [w1 EXCEPT !.st.view_mode = value, !.st.time = AllT]
         IN  Refresh(w2)
    ELSE LET w1 == [w EXCEPT !.st.view_mode = value, !.st.time = AllT]
         IN  Refresh(w1)

\* The handlers of the toggle's value change, in registration order.
\* app.py: the on_change lambda (refresh), then on_view_change.
\* app_comment.py: the on_change lambda (set view_mode, refresh).
on_value_change(w, value) ==
    IF impl = "app"
    THEN LET w1 == Refresh(w)
             w2 == [w1 EXCEPT !.st.view_mode = value]
         IN  Refresh(w2)
    ELSE LET w1 == [w EXCEPT !.st.view_mode = value]
         IN  Refresh(w1)

\* view_toggle.value = value: the handlers run only when the value changes.
set_value(w, value) ==
    IF w.toggle = value THEN w
    ELSE on_value_change([w EXCEPT !.toggle = value], value)

\* Mutant of reset_filters: the update leaves out 'time'.
reset_filters_keeps_time(w) ==
    LET w1 == [w EXCEPT !.st = [InitialState EXCEPT !.time = w.st.time]]
        w2 == set_value(w1, "Quarter")
    IN  Done(Refresh(w2))

reset_filters(w) ==
    LET w1 == [w EXCEPT !.st = InitialState]
        w2 == set_value(w1, "Quarter")
    IN  Done(Refresh(w2))

handle_click_grade(w, e) ==
    IF Guard(e)
    THEN IF ~HasKey(e, "label") THEN Raised(w)
         ELSE LET clicked == e.args["points"][1]["label"]
                  w1 == [w EXCEPT !.st.grade = Toggle(@, clicked, All)]
              IN  Done(Refresh(w1))
    ELSE Ignored(w)

handle_click_level(w, e) ==
    IF Guard(e)
    THEN IF ~HasKey(e, "label") THEN Raised(w)
         ELSE LET clicked == e.args["points"][1]["label"]
                  w1 == [w EXCEPT !.st.level = Toggle(@, clicked, All)]
              IN  Done(Refresh(w1))
    ELSE Ignored(w)

\* Mutant of Truncate: the dash is looked for at the fourth character.
Truncate_fourth_char(clicked) ==
    IF Len(clicked) > 7 /\ clicked[4] = "-"
    THEN SubSeq(clicked, 1, 7) ELSE clicked

\* clicked[:7] when len(clicked) > 7 and clicked[4] == '-'
Truncate(clicked) ==
    IF Len(clicked) > 7 /\ clicked[5] = "-"
    THEN SubSeq(clicked, 1, 7) ELSE clicked

\* Mutant of handle_click_time: a click in Quarter mode toggles the time
\* filter like a click in Month mode, before drilling down.
handle_click_time_toggles(w, e) ==
    IF Guard(e)
    THEN IF ~HasKey(e, "x") THEN Raised(w)
         ELSE LET clicked == Truncate(e.args["points"][1]["x"])
                  w1 == [w EXCEPT !.st.time = Toggle(@, clicked, AllT),
                                  !.st.view_mode = "Month"]
                  w2 == set_value(w1, "Month")
              IN  Done(Refresh(w2))
    ELSE Ignored(w)

\* Mutant of handle_click_time: a click in Month mode selects the label
\* and never deselects it.
handle_click_time_selects(w, e) ==
    IF Guard(e)
    THEN IF ~HasKey(e, "x") THEN Raised(w)
         ELSE LET clicked == Truncate(e.args["points"][1]["x"])
                  w1 == [w EXCEPT !.st.time = clicked,
                                  !.st.view_mode = "Month"]
                  w2 == set_value(w1, "Month")
              IN  Done(Refresh(w2))
    ELSE Ignored(w)

handle_click_time(w, e) ==
    IF Guard(e)
    THEN IF ~HasKey(e, "x") THEN Raised(w)
         ELSE LET clicked == Truncate(e.args["points"][1]["x"])
              IN  IF w.st.view_mode = "Quarter"
                  THEN LET w1 == [w EXCEPT !.st.time = clicked,
                                           !.st.view_mode = "Month"]
                           w2 == set_value(w1, "Month")
                       IN  Done(Refresh(w2))
                  ELSE LET w1 == [w EXCEPT
                                    !.st.time = Toggle(@, clicked, AllT)]
                       IN  Done(Refresh(w1))
    ELSE Ignored(w)

handle_click_subject(w, e) ==
    IF Guard(e)
    THEN IF ~HasKey(e, "x") THEN Raised(w)
         ELSE LET clicked == e.args["points"][1]["x"]
                  w1 == [w EXCEPT !.st.subject = Toggle(@, clicked, All)]
              IN  Done(Refresh(w1))
    ELSE Ignored(w)

----------------------------------------------------------------------------
(* 5. The state machine                                                    *)

\* The owner of the filter state client c works on: the module in app.py,
\* the client's own Dashboard in app_comment.py.
Owner(c) == IF impl = "app" THEN "module" ELSE c

Open == DOMAIN view_toggle

StateOf(c) == state[Owner(c)]

W(c) == [st |-> StateOf(c), toggle |-> view_toggle[c], shown |-> shown[c]]

\* The record of a handled event: the operation, its client and argument,
\* the filter state pre the handler found, and how the handler ended.
Event(op, c, arg, pre, outcome) ==
    [op |-> op, client |-> c, arg |-> arg, pre |-> pre, outcome |-> outcome]

\* Mutant of Commit: the handler's filtering is done on the fact table
\* itself, which is left holding the rows of the fully filtered view.
Commit_filtering_in_place(c, r, op, arg) ==
    /\ state' = [state EXCEPT ![Owner(c)] = r.w.st]
    /\ view_toggle' = [view_toggle EXCEPT ![c] = r.w.toggle]
    /\ shown' = [shown EXCEPT ![c] = r.w.shown]
    /\ last' = Event(op, c, arg, StateOf(c), r.outcome)
    /\ LET kept(d) == OrderBy(d, {p \in d \X d : p[1] < p[2]})
           rows(xs) == [k \in DOMAIN xs |-> df[xs[k]]]
       IN  df' = rows(kept(get_data(r.w.st, FALSE, FALSE, FALSE, FALSE)))
    /\ UNCHANGED impl

\* Write back what a handler of client c returned.
Commit(c, r, op, arg) ==
    /\ state' = [state EXCEPT ![Owner(c)] = r.w.st]
    /\ view_toggle' = [view_toggle EXCEPT ![c] = r.w.toggle]
    /\ shown' = [shown EXCEPT ![c] = r.w.shown]
    /\ last' = Event(op, c, arg, StateOf(c), r.outcome)
    /\ UNCHANGED <<impl, df>>

\* After import: df built, app.py's state dict created, no page loaded.
InitWith(tables) ==
    /\ impl \in {"app", "app_comment"}
    /\ df \in tables
    /\ state = IF impl = "app" THEN ("module" :> InitialState) ELSE <<>>
    /\ view_toggle = <<>>
    /\ shown = <<>>
    /\ last = Event("import", "none", <<>>, InitialState, "done")

\* A page load: index() builds the widgets of client c and renders them;
\* app_comment.py first creates the client's Dashboard.
Index(c) ==
    /\ c \notin Open
    /\ LET st == IF impl = "app" THEN state["module"] ELSE InitialState
       IN  /\ state' = IF impl = "app" THEN state ELSE (c :> st) @@ state
           /\ view_toggle' = (c :> "Quarter") @@ view_toggle
           /\ shown' = (c :> update_dashboard(st)) @@ shown
    /\ last' = Event("index", c, <<>>, InitialState, "done")
    /\ UNCHANGED <<impl, df>>

\* The page of client c goes away with its widgets (and its Dashboard).
Close(c) ==
    /\ c \in Open
    /\ state' = IF impl = "app" THEN state
                ELSE [x \in DOMAIN state \ {c} |-> state[x]]
    /\ view_toggle' = [x \in Open \ {c} |-> view_toggle[x]]
    /\ shown' = [x \in Open \ {c} |-> shown[x]]
    /\ last' = Event("close", c, <<>>, StateOf(c), "done")
    /\ UNCHANGED <<impl, df>>

ClickGrade(c, e) ==
    /\ c \in Open
    /\ \E r \in {handle_click_grade(W(c), e)} : Commit(c, r, "click_grade", e)

ClickLevel(c, e) ==
    /\ c \in Open
    /\ \E r \in {handle_click_level(W(c), e)} : Commit(c, r, "click_level", e)

ClickTime(c, e) ==
    /\ c \in Open
    /\ \E r \in {handle_click_time(W(c), e)} : Commit(c, r, "click_time", e)

ClickSubject(c, e) ==
    /\ c \in Open
    /\ \E r \in {handle_click_subject(W(c), e)} :
           Commit(c, r, "click_subject", e)

\* The user picks the other option of the toggle.
ViewChange(c, value) ==
    /\ c \in Open
    /\ view_toggle[c] # value
    /\ \E r \in {Done(set_value(W(c), value))} :
           Commit(c, r, "view_change", value)

Reset(c) ==
    /\ c \in Open
    /\ \E r \in {reset_filters(W(c))} : Commit(c, r, "reset", <<>>)

\* One browser tab, reloaded at will; every label of the click universes.
Init == InitWith(FactTables)

Next ==
    \E c \in {"c1"} :
        \/ Index(c)
        \/ Close(c)
        \/ \E v \in GradeClicks : ClickGrade(c, Click("label", v))
        \/ \E v \in LevelClicks : ClickLevel(c, Click("label", v))
        \/ \E v \in TimeClicks : ClickTime(c, Click("x", v))
        \/ \E v \in SubjectClicks : ClickSubject(c, Click("x", v))
        \/ \E m \in Modes : ViewChange(c, m)
        \/ Reset(c)

Spec == Init /\ [][Next]_vars

\* Two browser tabs open on the same process, one workbook, and one label
\* on each of the grade and time charts.
InitMulti == InitWith({Load(BaseA, Min(MaxRows, Len(BaseA.rows)))})

NextMulti ==
    \E c \in Clients :
        \/ Index(c)
        \/ ClickGrade(c, Click("label", "A"))
        \/ ClickTime(c, Click("x", Q1))
        \/ \E m \in Modes : ViewChange(c, m)
        \/ Reset(c)

SpecMulti == InitMulti /\ [][NextMulti]_vars

----------------------------------------------------------------------------
(* 6. Properties                                                           *)

\* The label a well-formed click carries.
Label(e) ==
    LET point == e.args["points"][1]
    IN  point[CHOOSE k \in DOMAIN point : TRUE]

ClickOp(d) ==
    CASE d = "grade" -> "click_grade"
      [] d = "level" -> "click_level"
      [] d = "subject" -> "click_subject"
      [] d = "time" -> "click_time"

ToggleDims == {"grade", "level", "subject"}

\* The latest step handled, to completion, a click on dimension d.
Clicked(d) == last.op = ClickOp(d) /\ last.outcome = "done"

\* The filter state the client of the latest event works on.
Now == state[Owner(last.client)]

\* This step and the step before it are completed clicks of one client on
\* dimension d carrying the same label.
ClickedTwice(d) ==
    /\ Clicked(d)
    /\ last'.op = ClickOp(d) /\ last'.outcome = "done"
    /\ last'.client = last.client
    /\ last'.arg = last.arg

\* C1 (as amended): on grade, level and subject, a click carrying label v
\* leaves the filter at v when it differed from v and at "All" when it was
\* v; so a click on v that found the filter different from v, followed by a
\* second click on v, ends with the filter at "All", and two clicks on v
\* that found the filter at v end with it at v again.
C1_ToggleRoundTrip ==
    [][\A d \in ToggleDims :
          /\ (last'.op = ClickOp(d) /\ last'.outcome = "done") =>
                LET o == Owner(last'.client)
                    v == Label(last'.arg)
                IN  state'[o][d] = (IF state[o][d] = v THEN All ELSE v)
          /\ ClickedTwice(d) =>
                state'[Owner(last.client)][d] =
                    (IF last.pre[d] # Label(last.arg)
                     THEN All ELSE Label(last.arg))]_vars

\* C1 witness: a click on the label the filter held has set it to "All".
C1_Witness ==
    \E d \in ToggleDims :
        /\ Clicked(d)
        /\ last.pre[d] = Label(last.arg)
        /\ Now[d] = All

\* C1 as stated: two clicks in a row on the same label of the same
\* dimension always end with that filter at "All".
C1_AlwaysAll ==
    [][\A d \in ToggleDims :
          ClickedTwice(d) => state'[Owner(last.client)][d] = All]_vars

\* C2: a completed time click that found view_mode = Quarter ends with the
\* time filter at the clicked label (never "All") and view_mode = Month,
\* also when the time filter already held that label.
C2_QuarterClickDrillsDown ==
    (Clicked("time") /\ last.pre.view_mode = "Quarter") =>
        /\ Now.time = Label(last.arg)
        /\ Now.time # AllT
        /\ Now.view_mode = "Month"

\* C2 witness: a Quarter-mode click on the label the time filter already
\* held has kept the label and moved to Month mode.
C2_Witness ==
    /\ Clicked("time")
    /\ last.pre.view_mode = "Quarter"
    /\ last.pre.time = Label(last.arg)
    /\ Now.time = Label(last.arg)
    /\ Now.view_mode = "Month"

\* C3: a completed time click that found view_mode = Month leaves view_mode
\* at Month and sets the time filter to "All" when it held the clicked
\* label and to the clicked label otherwise.
C3_MonthClickToggles ==
    (Clicked("time") /\ last.pre.view_mode = "Month") =>
        /\ Now.view_mode = "Month"
        /\ Now.time = (IF last.pre.time = Label(last.arg)
                       THEN AllT ELSE Label(last.arg))

\* C3 witness: in Month mode the time filter held a quarter label and a
\* click on a month label has replaced it.
C3_Witness ==
    /\ Clicked("time")
    /\ last.pre.view_mode = "Month"
    /\ Contains(last.pre.time, "Q")
    /\ Contains(Label(last.arg), "-")
    /\ Now.time = Label(last.arg)

\* C4: reset ends with all four filters at "All" and view_mode = Quarter,
\* the initial filter state, from whatever state it found; a second reset
\* changes nothing the client can see.
C4_ResetRestoresInitial ==
    last.op = "reset" =>
        /\ Now = InitialState
        /\ reset_filters(W(last.client)).w = W(last.client)

\* C4 witness: reset has run on a state with every filter set in Month
\* mode.
C4_Witness ==
    /\ last.op = "reset"
    /\ last.pre.grade # All /\ last.pre.level # All
    /\ last.pre.subject # All /\ last.pre.time # AllT
    /\ last.pre.view_mode = "Month"
    /\ Now = InitialState

EventOps ==
    {"click_grade", "click_level", "click_time", "click_subject",
     "view_change", "reset"}

\* C5: an event handled for one client leaves unchanged the filter state
\* every other open client works on.
C5_SessionIsolation ==
    [][\A c \in Open :
          (last'.op \in EventOps /\ last'.client # c) =>
              state'[Owner(c)] = state[Owner(c)]]_vars

\* C6: once an event has been handled to completion, every output its
\* client displays is the one computed from the filter state the event
\* left, its view_mode included.
C6_OutputsReflectFinalState ==
    (last.op \in EventOps /\ last.outcome = "done") =>
        shown[last.client] = update_dashboard(Now)

\* C6 witness: a Quarter-mode time click, which assigns the state, sets
\* the toggle (running its change handlers) and refreshes, has left a
\* drawn month chart computed from the final state.
C6_Witness ==
    /\ Clicked("time")
    /\ last.pre.view_mode = "Quarter"
    /\ Now.view_mode = "Month"
    /\ ~shown[last.client].plot_time.blank
    /\ shown[last.client] = update_dashboard(Now)
    /\ shown[last.client] # update_dashboard(last.pre)

FilterStates == {state[o] : o \in DOMAIN state}

Full(st) == get_data(st, FALSE, FALSE, FALSE, FALSE)

\* The view that ignores dimension d alone.
Ignoring(st, d) ==
    get_data(st, d = "grade", d = "level", d = "time", d = "subject")

Dims == {"grade", "level", "subject", "time"}

\* C7: with all four dimensions ignored, the filtered view holds exactly
\* the rows of the fact table.
C7_IgnoreAllIsBaseTable ==
    \A st \in FilterStates : get_data(st, TRUE, TRUE, TRUE, TRUE) = DOMAIN df

\* C7 witness: all four filters are set and cut rows out of the fully
\* filtered view, and the view that ignores them all is the whole table.
C7_Witness ==
    \E st \in FilterStates :
        /\ st.grade # All /\ st.level # All
        /\ st.subject # All /\ st.time # AllT
        /\ Full(st) # DOMAIN df
        /\ get_data(st, TRUE, TRUE, TRUE, TRUE) = DOMAIN df

\* C8: for every dimension d, the rows of the fully filtered view are rows
\* of the view that ignores d, so there are no more of them.
C8_NarrowingNeverAddsRows ==
    \A st \in FilterStates : \A d \in Dims :
        /\ Full(st) \subseteq Ignoring(st, d)
        /\ Cardinality(Full(st)) <= Cardinality(Ignoring(st, d))

\* C8 witness: the fully filtered view has rows, and on two dimensions the
\* view that ignores the dimension has more.
C8_Witness ==
    \E st \in FilterStates :
        /\ Full(st) # {}
        /\ Cardinality({d \in Dims :
              Cardinality(Full(st)) < Cardinality(Ignoring(st, d))}) >= 2

RECURSIVE SumValues(_, _)
\* the sum of f over the keys in S
SumValues(f, S) ==
    IF S = {} THEN 0
    ELSE LET k == CHOOSE x \in S : TRUE
         IN  f[k] + SumValues(f, S \ {k})

\* The slices of a pie chart, none for the blank figure.
Slices(fig) == IF fig.blank THEN <<>> ELSE fig.values

\* C9: the row counts of the grade chart's slices sum to the row count of
\* the view that ignores the grade filter.
C9_GradeCountsSumToView ==
    \A st \in FilterStates :
        LET slices == Slices(render_grade_chart(st))
        IN  SumValues(slices, DOMAIN slices) =
                Cardinality(Ignoring(st, "grade"))

\* C9 witness: a grade is selected, the chart is drawn with rows in at
\* least two slices, and the selected grade leaves out rows of its view.
C9_Witness ==
    \E st \in FilterStates :
        LET slices == Slices(render_grade_chart(st))
        IN  /\ st.grade # All
            /\ Cardinality({g \in DOMAIN slices : slices[g] > 0}) >= 2
            /\ Cardinality(Full(st)) < Cardinality(Ignoring(st, "grade"))

\* C10: every slice of the level chart, and the sum of its slices, is at
\* most the row count of the view that ignores the level filter.
C10_LevelStudentsAtMostRows ==
    \A st \in FilterStates :
        LET slices == Slices(render_level_chart(st))
            rows == Cardinality(Ignoring(st, "level"))
        IN  /\ \A l \in DOMAIN slices : slices[l] <= rows
            /\ SumValues(slices, DOMAIN slices) <= rows

\* C10 witness: with a level selected, the level chart is drawn and a
\* student with several rows makes the slices sum to less than the row
\* count.
C10_Witness ==
    \E st \in FilterStates :
        LET slices == Slices(render_level_chart(st))
            rows == Cardinality(Ignoring(st, "level"))
        IN  /\ st.level # All
            /\ DOMAIN slices # {}
            /\ SumValues(slices, DOMAIN slices) < rows

\* The KPI labels "0.00", "0.00%", "0.00%", "0.0%".
EmptyKpis ==
    [kpi_avg |-> 0, kpi_weighted |-> 0, kpi_pass |-> 0, kpi_perfect |-> 0]

\* C11: in every filter state whose fully filtered view has no rows the
\* four KPIs are the zero labels, and in every filter state each chart
\* whose own view has no rows is the blank figure.
C11_EmptyViewKpis ==
    \A st \in FilterStates :
        /\ Full(st) = {} => render_kpis(st) = EmptyKpis
        /\ Ignoring(st, "grade") = {} => render_grade_chart(st) = Blank
        /\ Ignoring(st, "level") = {} => render_level_chart(st) = Blank
        /\ time_rows(st) = {} => render_time_chart(st) = Blank
        /\ Ignoring(st, "subject") = {} => render_subject_chart(st) = Blank

\* C11 witness: on a table with rows, a click on a grade no row carries has
\* emptied the fully filtered view; the client shows the zero KPIs, a drawn
\* grade chart and a blank level chart.
C11_Witness ==
    /\ Clicked("grade")
    /\ df # <<>>
    /\ \A i \in DOMAIN df : df[i].Assessment_Grade # Label(last.arg)
    /\ Now.grade = Label(last.arg)
    /\ Full(Now) = {}
    /\ shown[last.client].kpis = EmptyKpis
    /\ ~shown[last.client].plot_grade.blank
    /\ shown[last.client].plot_level = Blank

\* A point that carries neither 'label' nor 'x'.
BarePoint == Click("pointNumber", 0)

\* The payloads that lack a field a handler reads.
Malformed(key) ==
    {NoArgs, NoPoints, EmptyPoints, BarePoint,
     Click(IF key = "label" THEN "x" ELSE "label", "A")}

ClickOps == {"click_grade", "click_level", "click_time", "click_subject"}

\* One browser tab on one workbook; each chart receives one well-formed
\* click and every payload that lacks a field its handler reads.
InitMalformed == InitWith({Load(BaseA, Min(MaxRows, Len(BaseA.rows)))})

NextMalformed ==
    \E c \in {"c1"} :
        \/ Index(c)
        \/ \E e \in Malformed("label") \cup {Click("label", "A")} :
              ClickGrade(c, e)
        \/ \E e \in Malformed("label") \cup {Click("label", "Grade 9")} :
              ClickLevel(c, e)
        \/ \E e \in Malformed("x") \cup {Click("x", Q1)} : ClickTime(c, e)
        \/ \E e \in Malformed("x") \cup {Click("x", "Math")} :
              ClickSubject(c, e)

SpecMalformed == InitMalformed /\ [][NextMalformed]_vars

\* The key the handler of click operation op reads from the clicked point.
KeyOf(op) == IF op \in {"click_grade", "click_level"} THEN "label" ELSE "x"

\* C12: a click whose payload lacks a field its handler reads leaves the
\* filter state as the handler found it and leaves the handler without an
\* exception.
C12_MalformedIsNoOp ==
    (last.op \in ClickOps /\ last.arg \in Malformed(KeyOf(last.op))) =>
        /\ Now = last.pre
        /\ last.outcome # "raised"

\* The bars of a bar chart as <<label, mean>> pairs, none for the blank
\* figure.
Bars(fig) ==
    IF fig.blank THEN <<>>
    ELSE [k \in DOMAIN fig.bars |-> <<fig.bars[k].x, fig.bars[k].y>>]

\* The buckets and bucket values of the chart of dimension d.
OwnChart(st, d) ==
    CASE d = "grade" -> Slices(render_grade_chart(st))
      [] d = "level" -> Slices(render_level_chart(st))
      [] d = "subject" -> Bars(render_subject_chart(st))
      [] d = "time" -> Bars(render_time_chart(st))

\* The values the filter of dimension d can hold.
FilterValues(d) ==
    CASE d = "grade" -> {All} \cup {grade_order[i] : i \in DOMAIN grade_order}
      [] d = "level" -> {All} \cup {LevelOrder[i] : i \in DOMAIN LevelOrder}
      [] d = "subject" ->
            {All} \cup {SubjectOrder[i] : i \in DOMAIN SubjectOrder}
      [] d = "time" -> {AllT} \cup {TimeOrder[i] : i \in DOMAIN TimeOrder}

\* C13: with the other filters held fixed, the chart of grade, level and
\* subject, and the time chart in Quarter mode, has the same buckets with
\* the same values for every value of its own filter; the average KPI is
\* the mean over the rows of the fully filtered view only.
C13_OwnChartIgnoresOwnFilter ==
    \A st \in FilterStates :
        /\ \A d \in Dims :
              (d = "time" => st.view_mode = "Quarter") =>
                  \A v \in FilterValues(d) :
                      OwnChart([st EXCEPT ![d] = v], d) = OwnChart(st, d)
        /\ Full(st) # {} =>
              render_kpis(st).kpi_avg =
                  Round(100 * SumOver(Full(st), "Score"),
                        Den * Cardinality(Full(st)))

\* C13 witness: grade "A" has been selected on three rows with scores 90,
\* 60 and 40; the grade chart still has its three buckets, the ones it has
\* with no grade selected, and the average KPI is "90.00".
C13_Witness ==
    /\ Clicked("grade")
    /\ Now.grade = "A"
    /\ Cardinality(Full(Now)) = 1
    /\ LET slices == Slices(shown[last.client].plot_grade)
       IN  /\ Cardinality({g \in DOMAIN slices : slices[g] > 0}) = 3
           /\ slices = OwnChart([Now EXCEPT !.grade = All], "grade")
    /\ shown[last.client].kpis.kpi_avg = 9000

\* The month labels of the rows of quarter q.
MonthsOf(q) ==
    {df[i].YearMonthConcat : i \in {j \in DOMAIN df :
                                      df[j].YearQuarterConcat = q}}

\* The labels of the bars the time chart of client c shows.
ShownTimeBuckets(c) ==
    LET fig == shown[c].plot_time
    IN  IF fig.blank THEN {} ELSE {fig.bars[k].x : k \in DOMAIN fig.bars}

\* The user clicks bar q of the quarter chart.
DrillDown(c, q) ==
    /\ c \in Open
    /\ StateOf(c).view_mode = "Quarter"
    /\ q \in ShownTimeBuckets(c)
    /\ ClickTime(c, Click("x", q))

\* The user clicks the bar of month m of quarter q on the month chart.
MonthClick(c, q, m) ==
    /\ c \in Open
    /\ StateOf(c).view_mode = "Month"
    /\ m \in ShownTimeBuckets(c) \cap MonthsOf(q)
    /\ ClickTime(c, Click("x", m))

\* One browser tab on a workbook in which every month lies in one quarter.
\* The user drills into quarter Q1 and then clicks bars of months of Q1,
\* and bars of the other charts; there is no reset and no use of the
\* toggle.
InitDrill == InitWith({Load(BaseA, Min(MaxRows, Len(BaseA.rows)))})

NextDrill ==
    \E c \in {"c1"} :
        \/ Index(c)
        \/ DrillDown(c, Q1)
        \/ \E m \in {M01, M02} : MonthClick(c, Q1, m)
        \/ \E v \in GradeClicks : ClickGrade(c, Click("label", v))
        \/ \E v \in LevelClicks : ClickLevel(c, Click("label", v))
        \/ \E v \in SubjectClicks : ClickSubject(c, Click("x", v))

SpecDrill == InitDrill /\ [][NextDrill]_vars

\* C14: once a click on quarter Q1 has moved the client to Month mode, and
\* while only bars of months of Q1 are clicked, every row the time chart
\* draws is a row of Q1.
C14_DrillDownContextKept ==
    \A c \in Open :
        StateOf(c).view_mode = "Month" =>
            \A i \in time_rows(StateOf(c)) : df[i].YearQuarterConcat = Q1

\* C15: no step of any client changes the fact table, and after every step
\* each row's Assessment_Grade and PassedScore are the ones its Score
\* determines, as they were after load.
C15_FactTableImmutable ==
    [][/\ df' = df
       /\ \A i \in DOMAIN df' :
             /\ df'[i].Assessment_Grade = get_grade(df'[i].Score)
             /\ df'[i].PassedScore = PassedScore(df'[i].Score)]_vars

\* C15 witness: with two clients open on a table with rows, an event has
\* left a filter state whose view holds only part of the rows, and the
\* table is the one that was loaded.
C15_Witness ==
    /\ Clients \subseteq Open
    /\ last.op \in EventOps
    /\ Full(Now) # DOMAIN df
    /\ df = Load(BaseA, Min(MaxRows, Len(BaseA.rows)))
    /\ df # <<>>

\* The figure fig draws the rows in set rows as one bar per month label,
\* each with the mean score of its rows, or is blank when there are none.
DrawsByMonth(fig, rows) ==
    IF rows = {} THEN fig = Blank
    ELSE /\ ~fig.blank
         /\ Len(fig.bars) =
               Cardinality({df[i].YearMonthConcat : i \in rows})
         /\ \A k \in DOMAIN fig.bars :
               /\ \E i \in rows : df[i].YearMonthConcat = fig.bars[k].x
               /\ fig.bars[k].y =
                     Mean({i \in rows :
                             df[i].YearMonthConcat = fig.bars[k].x})
         /\ \A k, l \in DOMAIN fig.bars :
               k # l => fig.bars[k].x # fig.bars[l].x

\* The rows of the view ignoring the time filter that lie in quarter q.
InQuarter(st, q) ==
    {i \in Ignoring(st, "time") : df[i].YearQuarterConcat = q}

\* C16: in Month mode with the time filter at a quarter label q, the time
\* chart draws exactly the rows of the view ignoring the time filter whose
\* quarter label is q, one bar per month label, every bar at opacity 1.0.
C16_QuarterContextChart ==
    \A st \in FilterStates :
        (st.view_mode = "Month" /\ Contains(st.time, "Q")) =>
            /\ time_rows(st) = InQuarter(st, st.time)
            /\ DrawsByMonth(render_time_chart(st), InQuarter(st, st.time))
            /\ \A k \in DOMAIN Bars(render_time_chart(st)) :
                  render_time_chart(st).bars[k].opacity = 10

\* C16 witness: a click on a quarter bar has opened the month chart of
\* that quarter: two month bars, both at opacity 1.0, while the view
\* ignoring the time filter has rows of another quarter.
C16_Witness ==
    /\ Clicked("time")
    /\ last.pre.view_mode = "Quarter"
    /\ Now.view_mode = "Month" /\ Contains(Now.time, "Q")
    /\ InQuarter(Now, Now.time) # Ignoring(Now, "time")
    /\ LET fig == shown[last.client].plot_time
       IN  /\ ~fig.blank
           /\ Len(fig.bars) = 2
           /\ \A k \in DOMAIN fig.bars : fig.bars[k].opacity = 10

\* The fact table rows with month label m.
Matches(m) == {i \in DOMAIN df : df[i].YearMonthConcat = m}

\* The time filter of st holds a month label.
MonthSelected(st) ==
    st.view_mode = "Month" /\ st.time # AllT /\ ~Contains(st.time, "Q")
    /\ Contains(st.time, "-")

\* C17: in Month mode with the time filter at a month label m that some
\* fact table row carries, the time chart draws exactly the rows of the
\* view ignoring the time filter whose quarter label is that of a fact
\* table row with month label m (the first such row); the bar of m has
\* opacity 1.0 and every other bar 0.3.
C17_MonthContextChart ==
    \A st \in FilterStates :
        (MonthSelected(st) /\ Matches(st.time) # {}) =>
            LET first == CHOOSE i \in Matches(st.time) :
                            \A j \in Matches(st.time) : i <= j
                fig == render_time_chart(st)
            IN  /\ time_rows(st) = InQuarter(st, df[first].YearQuarterConcat)
                /\ \E r \in Matches(st.time) :
                      DrawsByMonth(fig, InQuarter(st, df[r].YearQuarterConcat))
                /\ \A k \in DOMAIN Bars(fig) :
                      fig.bars[k].opacity =
                          (IF fig.bars[k].x = st.time THEN 10 ELSE 3)

\* C17 witness: a month is selected on the month chart; its bar is at
\* opacity 1.0 beside a bar of the same quarter at 0.3, and rows of another
\* quarter are left out.
C17_Witness ==
    /\ Clicked("time")
    /\ MonthSelected(Now) /\ Matches(Now.time) # {}
    /\ time_rows(Now) # Ignoring(Now, "time")
    /\ LET fig == shown[last.client].plot_time
       IN  /\ ~fig.blank
           /\ \E k \in DOMAIN fig.bars :
                 fig.bars[k].x = Now.time /\ fig.bars[k].opacity = 10
           /\ \E k \in DOMAIN fig.bars :
                 fig.bars[k].x # Now.time /\ fig.bars[k].opacity = 3

\* C18: in Month mode with the time filter at a month label no fact table
\* row carries, the time chart draws the whole view ignoring the time
\* filter, by month, and the KPIs are the zero labels.
C18_UnmatchedMonthFailsOpen ==
    \A st \in FilterStates :
        (MonthSelected(st) /\ Matches(st.time) = {}) =>
            /\ time_rows(st) = Ignoring(st, "time")
            /\ DrawsByMonth(render_time_chart(st), Ignoring(st, "time"))
            /\ render_kpis(st) = EmptyKpis

\* C18 witness: a click in Month mode has set the time filter to a month
\* label no row carries; the client shows the month bars of rows of two
\* quarters and the zero KPIs.
C18_Witness ==
    /\ Clicked("time")
    /\ MonthSelected(Now) /\ Matches(Now.time) = {}
    /\ Cardinality({df[i].YearQuarterConcat : i \in time_rows(Now)}) = 2
    /\ ~shown[last.client].plot_time.blank
    /\ Len(shown[last.client].plot_time.bars) >= 2
    /\ shown[last.client].kpis = EmptyKpis

\* The filtering step of dimension dim; ignore holds the ignored ones.
Step(dim, d, st, ignore) ==
    CASE dim = "grade" -> filter_grade(d, st, "grade" \in ignore)
      [] dim = "level" -> filter_level(d, st, "level" \in ignore)
      [] dim = "subject" -> filter_subject(d, st, "subject" \in ignore)
      [] dim = "time" -> filter_time(d, st, "time" \in ignore)

RECURSIVE ApplyIn(_, _, _, _)
\* The rows d put through the steps of the dimensions in sequence order.
ApplyIn(order, d, st, ignore) ==
    IF order = <<>> THEN d
    ELSE ApplyIn(Tail(order), Step(Head(order), d, st, ignore), st, ignore)

\* Every order of the four steps.
Orders ==
    {o \in [1..4 -> Dims] : \A a, b \in 1..4 : a # b => o[a] # o[b]}

\* Row i satisfies the filter of dimension dim, which is active.
Satisfies(i, st, dim) ==
    CASE dim = "grade" -> df[i].Assessment_Grade = st.grade
      [] dim = "level" -> df[i].GradeLevel = st.level
      [] dim = "subject" -> df[i].SubjectName = st.subject
      [] dim = "time" ->
            IF Contains(st.time, "Q")
            THEN df[i].YearQuarterConcat = st.time
            ELSE df[i].YearMonthConcat = st.time

\* The filter of dimension dim is not at "All".
Active(st, dim) == IF dim = "time" THEN st.time # AllT ELSE st[dim] # All

\* get_data with the dimensions in set ignore ignored.
View(st, ignore) ==
    get_data(st, "grade" \in ignore, "level" \in ignore, "time" \in ignore,
             "subject" \in ignore)

\* One browser tab on the workbook with two levels, two subjects and a
\* month in two quarters; one label on each of the grade, level and
\* subject charts, and a quarter, a month and a stale month on the time
\* chart.
InitFilter == InitWith({Load(BaseC, Min(MaxRows, Len(BaseC.rows)))})

NextFilter ==
    \E c \in {"c1"} :
        \/ Index(c)
        \/ ClickGrade(c, Click("label", "A"))
        \/ ClickLevel(c, Click("label", "Grade 9"))
        \/ \E v \in {Q2, M01, M09} : ClickTime(c, Click("x", v))
        \/ ClickSubject(c, Click("x", "Math"))
        \/ \E m \in Modes : ViewChange(c, m)
        \/ Reset(c)

SpecFilter == InitFilter /\ [][NextFilter]_vars

\* C19: for every filter state and every set of ignored dimensions, the
\* view holds exactly the fact table rows that satisfy every active filter
\* that is not ignored (the time filter against the quarter label when it
\* contains "Q", against the month label otherwise); the four steps give
\* these rows in every order, and applied to the view again they leave it
\* as it is.
C19_GetDataSemantics ==
    \A st \in FilterStates : \A ignore \in SUBSET Dims :
        /\ View(st, ignore) =
              {i \in DOMAIN df :
                 \A dim \in Dims \ ignore :
                    Active(st, dim) => Satisfies(i, st, dim)}
        /\ \A o \in Orders :
              ApplyIn(o, DOMAIN df, st, ignore) = View(st, ignore)
        /\ ApplyIn(<<"grade", "level", "subject", "time">>,
                   View(st, ignore), st, ignore) = View(st, ignore)

\* C19 witness: the level, subject and time filters are active, the time
\* filter at a quarter label; rows pass all three, and two of the three
\* alone let more rows pass.
C19_Witness ==
    \E st \in FilterStates :
        /\ st.level # All /\ st.subject # All /\ Contains(st.time, "Q")
        /\ View(st, {}) # {}
        /\ Cardinality({dim \in {"level", "subject", "time"} :
              Cardinality(View(st, {"level", "subject", "time"} \ {dim}))
                  > Cardinality(View(st, {}))}) >= 2

\* C20: the time title a client shows is "Monthly Breakdown for " followed
\* by the time filter when view_mode is Month and the time filter contains
\* "Q", and "Performance Over Time" in every other state.
C20_TimeTitle ==
    \A c \in Open :
        shown[c].time_title_label =
            (IF StateOf(c).view_mode = "Month" /\ Contains(StateOf(c).time, "Q")
             THEN <<"Monthly Breakdown for ", StateOf(c).time>>
             ELSE <<"Performance Over Time">>)

\* C20 witness: the toggle has been set back to Quarter while the time
\* filter holds the quarter drilled into; the title, which named the
\* quarter, is the generic one.
C20_Witness ==
    /\ last.op = "view_change"
    /\ last.pre.view_mode = "Month"
    /\ Now.view_mode = "Quarter"
    /\ Contains(Now.time, "Q")
    /\ time_title(last.pre) = <<"Monthly Breakdown for ", Now.time>>
    /\ shown[last.client].time_title_label = <<"Performance Over Time">>

\* The highest score drawn, in points.
MaxScore == 100

\* The scores 0, 0.5, 1, ... up to MaxScore.
Scores == 0..(MaxScore * Den)

\* The fact table of one exam with score s / Den.
OneExam(s) ==
    Load([hasWeight |-> FALSE,
          rows |-> << Raw(1, "Grade 9", "Math", Q1, M01, s, 0) >>], 1)

\* The three-row table with scores 90, 60, 40 and no Weight column.
Scenario == Load(BaseA, 3)

\* One browser tab on a table of one exam with any of the scores, or on
\* the three-row table; the grade chart is clicked at a passing and at a
\* failing grade.
InitScores == InitWith({OneExam(s) : s \in Scores} \cup {Scenario})

NextScores ==
    \E c \in {"c1"} :
        \/ Index(c)
        \/ \E v \in {"D", "F"} : ClickGrade(c, Click("label", v))
        \/ Reset(c)

SpecScores == InitScores /\ [][NextScores]_vars

\* C21: every row's grade is A above 84, B above 74, C above 64, D above
\* 54 and F otherwise, and the row is passed exactly from 55 on; on the
\* three-row table with scores 90, 60, 40 the initial filter state shows
\* the grade buckets A: 1, D: 1, F: 1, the average "63.33" and the pass
\* rate "66.67%".
C21_GradesAndScenario ==
    /\ \A i \in DOMAIN df :
          LET s == df[i].Score
              g == df[i].Assessment_Grade
          IN  /\ g \in {"A", "B", "C", "D", "F"}
              /\ g = "A" <=> s > 84 * Den
              /\ g = "B" <=> (s > 74 * Den /\ s <= 84 * Den)
              /\ g = "C" <=> (s > 64 * Den /\ s <= 74 * Den)
              /\ g = "D" <=> (s > 54 * Den /\ s <= 64 * Den)
              /\ g = "F" <=> s <= 54 * Den
              /\ df[i].PassedScore = "Pass" <=> s >= 55 * Den
              /\ df[i].PassedScore \in {"Pass", "Fail"}
    /\ \A c \in Open :
          (df = Scenario /\ StateOf(c) = InitialState) =>
              /\ Slices(shown[c].plot_grade) =
                    [g \in {"A", "B", "C", "D", "F"} |->
                        IF g \in {"A", "D", "F"} THEN 1 ELSE 0]
              /\ shown[c].kpis.kpi_avg = 6333
              /\ shown[c].kpis.kpi_pass = 6667

\* C21 witness: the page has been loaded on the three-row table and shows
\* the average "63.33".
C21_Witness ==
    /\ last.op = "index"
    /\ df = Scenario
    /\ {df[i].Score : i \in DOMAIN df} = {90 * Den, 60 * Den, 40 * Den}
    /\ StateOf(last.client) = InitialState
    /\ shown[last.client].kpis.kpi_avg = 6333
    /\ ~shown[last.client].plot_grade.blank

\* A workbook that mixes the scales: one exam scored 100 next to exams
\* scored 1.0, with weights 2, 1 and 0.
MixedScale ==
    [hasWeight |-> TRUE,
     rows |-> << Raw(1, "Grade 9", "Math", Q1, M01, 100 * Den, 2),
                 Raw(2, "Grade 9", "Art", Q1, M02, 1 * Den, 1),
                 Raw(2, "Grade 10", "Math", Q2, M04, 1 * Den, 0) >>]

KpiTables ==
    {Load(BaseB, MaxRows), Load(BaseC, MaxRows), Load(MixedScale, 3)}

\* One browser tab on a weighted table; the clicks reach views of one
\* exam, of zero total weight and of no rows.
InitKpi == InitWith(KpiTables)

NextKpi ==
    \E c \in {"c1"} :
        \/ Index(c)
        \/ \E v \in {"A", "F"} : ClickGrade(c, Click("label", v))
        \/ \E v \in {"Grade 10"} : ClickLevel(c, Click("label", v))
        \/ \E v \in {Q1, M04} : ClickTime(c, Click("x", v))
        \/ \E v \in {"Math", "Art"} : ClickSubject(c, Click("x", v))
        \/ Reset(c)

SpecKpi == InitKpi /\ [][NextKpi]_vars

\* df["Score"].max() > 1.0 over the whole fact table
Target ==
    IF \E i \in DOMAIN df : df[i].Score > 1 * Den THEN 100 * Den ELSE 1 * Den

Perfect(S) == {i \in S : df[i].Score = Target}

\* C22: the perfect-score target is 100 when the maximum score of the whole
\* fact table exceeds 1.0 and 1.0 otherwise, whatever the filter state;
\* every page whose fully filtered view has rows shows as perfect rate the
\* number of its rows scored at the target over the number of rows, times
\* 100 (to one decimal).
C22_PerfectRate ==
    \A c \in Open :
        LET rows == Full(StateOf(c))
        IN  rows # {} =>
                shown[c].kpis.kpi_perfect =
                    Round(10 * 100 * Cardinality(Perfect(rows)),
                          Cardinality(rows))

\* C22 witness: a filtered page on a table whose maximum is 100 shows only
\* exams scored 1.0, and a perfect rate of "0.0%".
C22_Witness ==
    /\ last.op \in ClickOps
    /\ last.outcome = "done"
    /\ Target = 100 * Den
    /\ Full(StateOf(last.client)) # {}
    /\ \A i \in Full(StateOf(last.client)) : df[i].Score = 1 * Den
    /\ shown[last.client].kpis.kpi_perfect = 0

\* The weighted-average label of the rows S in hundredths: the ratio
\* r = ws / (Den * w) of the summed weighted scores to the summed weights,
\* 0 when the weights sum to 0; r * 100 is shown when r <= 1, r otherwise.
WeightedLabel(S) ==
    LET shown_as(ws, w) ==
            IF w > 0
            THEN IF ws <= Den * w
                 THEN Round(100 * 100 * ws, Den * w)
                 ELSE Round(100 * ws, Den * w)
            ELSE 0
    IN  shown_as(SumOver(S, "WeightedScore"), SumOver(S, "Weight"))

\* C23: every page whose fully filtered view has rows shows as weighted
\* average the ratio sum(weightedScore) / sum(weight), or 0 when the
\* weights sum to 0, times 100 when the ratio is at most 1; a view whose
\* rows all have weight zero shows "0.00%".
C23_WeightedAverage ==
    \A c \in Open :
        LET rows == Full(StateOf(c))
        IN  rows # {} =>
                /\ shown[c].kpis.kpi_weighted = WeightedLabel(rows)
                /\ (\A i \in rows : df[i].Weight = 0) =>
                       shown[c].kpis.kpi_weighted = 0

\* C23 witness: a filtered page shows "0.00%" for rows that all have
\* weight zero and not all score zero.
C23_Witness ==
    /\ last.op \in ClickOps
    /\ last.outcome = "done"
    /\ Full(StateOf(last.client)) # {}
    /\ \A i \in Full(StateOf(last.client)) : df[i].Weight = 0
    /\ \E i \in Full(StateOf(last.client)) : df[i].Score > 0
    /\ shown[last.client].kpis.kpi_weighted = 0

\* A page shows a weighted ratio of exactly 1 as "100.00%".
C23_WitnessScales ==
    /\ last.outcome = "done"
    /\ last.client \in Open
    /\ LET rows == Full(StateOf(last.client))
       IN  /\ SumOver(rows, "Weight") > 0
           /\ SumOver(rows, "WeightedScore") = Den * SumOver(rows, "Weight")
           /\ shown[last.client].kpis.kpi_weighted = 100 * 100

\* The pairs x and y are the same fraction.
SameValue(x, y) == x[1] * y[2] = y[1] * x[2]

\* C24: on every page whose ignore-subject view has rows, the subject
\* chart has exactly one bar per subject of that view, each as high as the
\* mean score of the subject's rows in the view, and no bar is higher than
\* the bar before it.
C24_SubjectRanking ==
    \A c \in Open :
        LET d_sub == Ignoring(StateOf(c), "subject")
            fig == shown[c].plot_subject
        IN  d_sub # {} =>
                /\ ~fig.blank
                /\ Len(fig.bars) = nunique(d_sub, "SubjectName")
                /\ {fig.bars[k].x : k \in DOMAIN fig.bars} =
                       {df[i].SubjectName : i \in d_sub}
                /\ \A k \in DOMAIN fig.bars :
                       SameValue(fig.bars[k].y,
                           Mean({i \in d_sub :
                                   df[i].SubjectName = fig.bars[k].x}))
                /\ \A k \in DOMAIN fig.bars : \A j \in DOMAIN fig.bars :
                       j < k => ~Greater(fig.bars[k].y, fig.bars[j].y)

\* C24 witness: a filtered page ranks two subjects of different mean
\* score, the later one in the alphabet first.
C24_Witness ==
    /\ last.op \in ClickOps
    /\ last.outcome = "done"
    /\ LET fig == shown[last.client].plot_subject
       IN  /\ ~fig.blank
           /\ Len(fig.bars) = 2
           /\ Greater(fig.bars[1].y, fig.bars[2].y)
           /\ fig.bars[1].x = "Math"
           /\ fig.bars[2].x = "Art"

\* The fields of a filter state, and the ones an event may write.
Fields == {"grade", "level", "time", "subject", "view_mode"}

OwnFields(op) ==
    CASE op = "click_grade" -> {"grade"}
      [] op = "click_level" -> {"level"}
      [] op = "click_subject" -> {"subject"}
      [] op = "click_time" -> {"time", "view_mode"}
      [] op = "view_change" -> {"view_mode"}

\* C25: a click on the grade, level or subject chart leaves the other
\* three filters and the view mode as the event found them; a click on
\* the time chart leaves the grade, level and subject filters; a view-mode
\* toggle leaves all four filters and sets the view mode to the mode
\* picked.
C25_OwnDimensionOnly ==
    last.op \in ClickOps \cup {"view_change"} =>
        /\ \A f \in Fields \ OwnFields(last.op) : Now[f] = last.pre[f]
        /\ last.op = "view_change" => Now.view_mode = last.arg

\* C25 witness: the toggle is moved to Quarter while the time filter holds
\* a month label, and the month label is still the time filter.
C25_Witness ==
    /\ last.op = "view_change"
    /\ last.arg = "Quarter"
    /\ last.pre.view_mode = "Month"
    /\ last.pre.time = M01
    /\ Now.time = M01
    /\ Now.view_mode = "Quarter"

\* C26: once a page has handled a time click, a view-mode toggle or a
\* reset to completion, the value of its granularity toggle is the view
\* mode of its filter state, and the view mode is Quarter or Month.
C26_ToggleMatchesViewMode ==
    (/\ last.op \in {"click_time", "view_change", "reset"}
     /\ last.outcome = "done") =>
        /\ Now.view_mode \in Modes
        /\ view_toggle[last.client] = Now.view_mode

\* Every month label of the fact table lies in exactly one quarter.
OneQuarterPerMonth ==
    \A i \in DOMAIN df : \A j \in DOMAIN df :
        df[i].YearMonthConcat = df[j].YearMonthConcat =>
            df[i].YearQuarterConcat = df[j].YearQuarterConcat

\* The column the time chart groups by in mode.
TimeColumn(mode) ==
    IF mode = "Quarter" THEN "YearQuarterConcat" ELSE "YearMonthConcat"

\* C27: on a fact table in which every month label lies in exactly one
\* quarter, every row of a page's fully filtered view is among the rows
\* its time chart draws (after the Month-mode restriction to a quarter),
\* and the row's bucket is a bar of the chart shown.
C27_SelectionStaysInChart ==
    OneQuarterPerMonth =>
        \A c \in Open :
            /\ Full(StateOf(c)) \subseteq time_rows(StateOf(c))
            /\ \A i \in Full(StateOf(c)) :
                   df[i][TimeColumn(StateOf(c).view_mode)]
                       \in ShownTimeBuckets(c)

\* C27 witness: in Month mode with a month selected, the fully filtered
\* view has rows and the time chart draws them next to rows of another
\* month of the quarter.
C27_Witness ==
    /\ OneQuarterPerMonth
    /\ last.op = "click_time"
    /\ last.outcome = "done"
    /\ Now.view_mode = "Month"
    /\ Now.time = M01
    /\ Full(Now) # {}
    /\ Full(Now) # time_rows(Now)
    /\ Full(Now) \subseteq time_rows(Now)
    /\ Cardinality(ShownTimeBuckets(last.client)) = 2

\* C28: on every page whose grade filter is a letter grade g and whose
\* ignore-grade view has rows, the annotation in the centre of the grade
\* chart is the count the chart itself shows for the slice of g.
C28_AnnotationIsOwnSlice ==
    \A c \in Open :
        LET st == StateOf(c)
            fig == shown[c].plot_grade
        IN  (/\ st.grade \in {grade_order[k] : k \in DOMAIN grade_order}
             /\ Ignoring(st, "grade") # {}) =>
                /\ ~fig.blank
                /\ fig.annotation = fig.values[st.grade]

\* C28 witness: with grade F and another filter selected, the annotation
\* counts the rows of slice F, fewer than the chart has rows.
C28_Witness ==
    /\ last.op \in ClickOps
    /\ last.outcome = "done"
    /\ Now.grade = "F"
    /\ Now.subject # All
    /\ LET fig == shown[last.client].plot_grade
       IN  /\ ~fig.blank
           /\ fig.annotation > 0
           /\ fig.annotation = fig.values["F"]
           /\ fig.annotation < Cardinality(Ignoring(Now, "grade"))

\* C29: every row, whatever its score (half points included), counts as
\* passed exactly when its letter grade is one of A, B, C, D: no row is
\* failed and graded D, none is passed and graded F.
C29_PassedIffGradedAboveF ==
    \A i \in DOMAIN df :
        df[i].PassedScore = "Pass" <=>
            df[i].Assessment_Grade \in {"A", "B", "C", "D"}

\* Labels a click on the time chart can carry: quarter and month labels,
\* the full dates Plotly may return for a month, and other strings.
Years == {<<"2", "0", "2", "3">>, <<"2", "0", "2", "4">>}

QuarterLabels ==
    {y \o <<" ", "Q", n>> : y \in Years, n \in {"1", "2", "3", "4"}}

MonthLabels ==
    {y \o <<"-">> \o m : y \in Years,
                         m \in {<<"0", "1">>, <<"0", "2">>, <<"0", "4">>,
                                <<"1", "2">>}}

DateLabels ==
    {m \o <<"-">> \o d : m \in MonthLabels,
                         d \in {<<"0", "1">>, <<"1", "5">>, <<"3", "1">>}}

OtherLabels ==
    {AllT,
     <<"2", "0", "2", "3">>,
     <<"Q", "u", "a", "r", "t", "e", "r", " ", "1">>,
     <<"2", "0", "2", "3", "-", "Q", "1", "-", "x">>,
     <<"2", "0", "2", "3", "-", "0", "1", "-", "0", "1", "T", "0", "0">>}

TimeLabels == QuarterLabels \cup MonthLabels \cup DateLabels \cup OtherLabels

\* One browser tab on the three-row table; the time chart is clicked with
\* any of the labels, in Quarter mode and (after a drill-down) in Month
\* mode.
InitLabels == InitWith({Scenario})

NextLabels ==
    \E c \in {"c1"} :
        \/ Index(c)
        \/ \E v \in TimeLabels : ClickTime(c, Click("x", v))
        \/ Reset(c)

SpecLabels == InitLabels /\ [][NextLabels]_vars

Digits == {"0", "1", "2", "3", "4", "5", "6", "7", "8", "9"}

\* "YYYY Qn"
IsQuarterLabel(s) ==
    /\ Len(s) = 7
    /\ \A k \in 1..4 : s[k] \in Digits
    /\ s[5] = " " /\ s[6] = "Q" /\ s[7] \in {"1", "2", "3", "4"}

\* "YYYY-MM"
IsMonthLabel(s) ==
    /\ Len(s) = 7
    /\ \A k \in {1, 2, 3, 4, 6, 7} : s[k] \in Digits
    /\ s[5] = "-"

\* "YYYY-MM-DD"
IsDate(s) ==
    /\ Len(s) = 10
    /\ \A k \in {1, 2, 3, 4, 6, 7, 9, 10} : s[k] \in Digits
    /\ s[5] = "-" /\ s[8] = "-"

\* The time filter a completed time click leaves when label is what its
\* normalisation gave: the label, or "All" when the click found the filter
\* at the label in Month mode.
Left(label) ==
    IF last.pre.view_mode = "Month" /\ last.pre.time = label
    THEN AllT ELSE label

\* C30: the normalisation of a time click's label leaves a quarter label
\* "YYYY Qn" and a month label "YYYY-MM" as they are, turns a full date
\* "YYYY-MM-DD" into its month label "YYYY-MM", and applied to its own
\* result changes nothing.
C30_LabelNormalisation ==
    (last.op = "click_time" /\ last.outcome = "done") =>
        LET clicked == Label(last.arg)
        IN  /\ (IsQuarterLabel(clicked) \/ IsMonthLabel(clicked)) =>
                   Now.time = Left(clicked)
            /\ IsDate(clicked) =>
                   /\ IsMonthLabel(SubSeq(clicked, 1, 7))
                   /\ Now.time = Left(SubSeq(clicked, 1, 7))
            /\ Now.time = Left(Truncate(clicked))
            /\ Now.time = Left(Truncate(Truncate(clicked)))
            /\ Truncate(Now.time) = Now.time

\* C30 witness: a click carrying the full date "2023-01-01" has selected
\* month "2023-01", and the filtered view has rows.
C30_Witness ==
    /\ last.op = "click_time"
    /\ last.outcome = "done"
    /\ IsDate(Label(last.arg))
    /\ Label(last.arg) = M01 \o <<"-", "0", "1">>
    /\ Now.time = M01
    /\ Full(Now) # {}

====
